---- MODULE Spec2Model ----
(***************************************************************************)
(* Parameter validation pipeline of seedtool (src/src/params.cpp).         *)
(*                                                                         *)
(* Params::validate() is modelled as a sequential process: pc names the    *)
(* validate_* method that runs next, one action per method.  argp_error    *)
(* terminates the process (argp_parse is called with flags 0, so           *)
(* ARGP_NO_EXIT is not set), which is pc = "exit".                         *)
(*                                                                         *)
(* Strings that the code parses (count, low, high, group threshold, group  *)
(* specifiers, max part length) are sequences of one-character strings so  *)
(* that stoi and sscanf are computed character by character.  Strings the  *)
(* code only compares or hands on (format names, positional arguments,     *)
(* stdin lines, the deterministic seed) are TLA+ strings.                  *)
(***************************************************************************)
EXTENDS Integers, Sequences, FiniteSets, TLC

VARIABLES
    raw,              \* Params::raw, the options as captured by parse_opt
    cin,              \* lines still unread on standard input
    count,            \* Params::count
    rng,              \* Params::rng
    input_format,     \* Params::input_format (a Format object or NULL)
    output_format,    \* Params::output_format (a Format object or NULL)
    is_ur_in,         \* Params::is_ur_in
    is_ur_out,        \* Params::is_ur_out
    max_part_length,  \* Params::max_part_length
    input,            \* Params::input
    ur,               \* Params::ur (type tag of the decoded UR, or NULL)
    pc,               \* the validate_* method to run next, "done" or "exit"
    err,              \* the diagnostic argp_error printed, if any
    ran,              \* history: the validate_* methods run so far, in order
    cin_reads,        \* history: number of calls of read_args_from_stdin
    resolved          \* history: number of assignments to input_format

vars == <<raw, cin, count, rng, input_format, output_format, is_ur_in,
          is_ur_out, max_part_length, input, ur, pc, err, ran, cin_reads,
          resolved>>

---------------------------------------------------------------------------
(* Bounds of the model.                                                    *)

MaxNumLen == 2      \* longest enumerated numeric option string
MaxGroupNum == 17   \* largest T and N enumerated in a group specifier
MaxGroupList == 3   \* longest enumerated list of --group options
MaxArgs == 2        \* most positional arguments
MaxLines == 2       \* most lines on standard input

---------------------------------------------------------------------------
(* Characters.                                                             *)

DigitChars == {"0", "1", "2", "3", "4", "5", "6", "7", "8", "9"}

SpaceChars == {" ", "\t", "\n", "\r", "\f"}

DigitVal(c) ==
    CASE c = "0" -> 0 [] c = "1" -> 1 [] c = "2" -> 2 [] c = "3" -> 3
      [] c = "4" -> 4 [] c = "5" -> 5 [] c = "6" -> 6 [] c = "7" -> 7
      [] c = "8" -> 8 [] c = "9" -> 9

RECURSIVE SkipSpace(_, _)
\* index of the first character of s at or after i that is not white space
SkipSpace(s, i) ==
    IF i <= Len(s) /\ s[i] \in SpaceChars THEN SkipSpace(s, i + 1) ELSE i

RECURSIVE DigitsEnd(_, _)
\* index just past the run of digits of s that starts at i
DigitsEnd(s, i) ==
    IF i <= Len(s) /\ s[i] \in DigitChars THEN DigitsEnd(s, i + 1) ELSE i

\* index just past an optional sign at i
SignEnd(s, i) ==
    IF i <= Len(s) /\ s[i] \in {"+", "-"} THEN i + 1 ELSE i

IsNegative(s, i) == i <= Len(s) /\ s[i] = "-"

---------------------------------------------------------------------------
(* std::stoi.                                                              *)

INT_MAX == 2147483647

RECURSIVE Magnitude(_, _, _, _)
\* The digits s[i..j-1] as a number: [cls |-> 0, v |-> n] when n <= INT_MAX,
\* cls 1 when n = INT_MAX + 1 (which fits an int only when negated), cls 2
\* when larger.
Magnitude(s, i, j, acc) ==
    IF i >= j THEN acc
    ELSE LET d == DigitVal(s[i])
         IN  IF acc.cls = 0 /\ acc.v <= (INT_MAX - d) \div 10
             THEN Magnitude(s, i + 1, j, [cls |-> 0, v |-> acc.v * 10 + d])
             ELSE IF acc.cls = 0 /\ acc.v = INT_MAX \div 10 /\ d = 8
             THEN Magnitude(s, i + 1, j, [cls |-> 1, v |-> INT_MAX])
             ELSE Magnitude(s, i + 1, j, [cls |-> 2, v |-> INT_MAX])

\* std::stoi(s): white space is skipped, an optional sign and the longest run
\* of digits are converted, whatever follows is ignored.  No digits throws
\* std::invalid_argument, a value outside int throws std::out_of_range.
\* ok = FALSE is the throw, with what the exception's what() gives.
stoi(s) ==
    LET b == SkipSpace(s, 1)
        d == SignEnd(s, b)
        e == DigitsEnd(s, d)
        neg == IsNegative(s, b)
        m == Magnitude(s, d, e, [cls |-> 0, v |-> 0])
    IN  IF e = d THEN [ok |-> FALSE, v |-> 0, what |-> "stoi"]
        ELSE IF m.cls = 0
        THEN [ok |-> TRUE, v |-> IF neg THEN 0 - m.v ELSE m.v, what |-> ""]
        ELSE IF m.cls = 1 /\ neg
        THEN [ok |-> TRUE, v |-> (0 - INT_MAX) - 1, what |-> ""]
        ELSE [ok |-> FALSE, v |-> 0, what |-> "stoi"]

---------------------------------------------------------------------------
(* sscanf(string, "%zd-of-%zd", &threshold, &count).                       *)

\* size_t is unsigned: a negative ssize_t stored into it wraps.  The width is
\* kept at 30 bits so that the wrapped values stay inside TLC's integers.
SIZE_MOD == 1073741824

as_size_t(n) == n % SIZE_MOD

RECURSIVE DecimalValue(_, _, _, _)
\* the digits s[i..j-1] as a number
DecimalValue(s, i, j, acc) ==
    IF i >= j THEN acc
    ELSE DecimalValue(s, i + 1, j, acc * 10 + DigitVal(s[i]))

\* One %zd conversion at index i: white space is skipped, then an optional
\* sign and at least one digit are needed.  fail is "input" at the end of the
\* string, "match" on any other character, "" on success; next is the index
\* just past the number.
scan_zd(s, i) ==
    LET b == SkipSpace(s, i)
        d == SignEnd(s, b)
        e == DigitsEnd(s, d)
        m == DecimalValue(s, d, e, 0)
    IN  IF b > Len(s) THEN [fail |-> "input", v |-> 0, next |-> b]
        ELSE IF e = d THEN [fail |-> "match", v |-> 0, next |-> d]
        ELSE [fail |-> "", v |-> IF IsNegative(s, b) THEN 0 - m ELSE m,
              next |-> e]

OfLiteral == <<"-", "o", "f", "-">>

\* whether the literal characters of the format match s at index i
MatchesLiteral(s, i) ==
    /\ i + Len(OfLiteral) - 1 <= Len(s)
    /\ \A k \in 1..Len(OfLiteral) : s[i + k - 1] = OfLiteral[k]

\* items is sscanf's return value: the number of conversions stored, or EOF
\* (-1) when the input ends before the first conversion.  threshold and count
\* are the two size_t variables; one that sscanf did not store keeps 0 here
\* (the code never reads it: argp_error has exited by then).
sscanf_group(s) ==
    LET a == scan_zd(s, 1)
        b == scan_zd(s, a.next + Len(OfLiteral))
    IN  IF a.fail = "input" THEN [items |-> 0 - 1, threshold |-> 0, count |-> 0]
        ELSE IF a.fail = "match" THEN [items |-> 0, threshold |-> 0, count |-> 0]
        ELSE IF ~MatchesLiteral(s, a.next) \/ b.fail # ""
        THEN [items |-> 1, threshold |-> as_size_t(a.v), count |-> 0]
        ELSE [items |-> 2, threshold |-> as_size_t(a.v), count |-> as_size_t(b.v)]

---------------------------------------------------------------------------
(* Params::parse_group_spec.                                               *)

MaxGroupCount == 16

group_descriptor(threshold, n) ==
    [threshold |-> threshold, count |-> n, passwords |-> "NULL"]

\* parse_group_spec without its check of 1-of-M groups
parse_group_spec_no_1_of_M(string) ==
    LET r == sscanf_group(string)
    IN  IF r.items # 2
        THEN [ok |-> FALSE, g |-> group_descriptor(0, 0),
              msg |-> "Could not parse group specifier: \"%s\""]
        ELSE IF ~(0 < r.threshold /\ r.threshold <= r.count
                  /\ r.count <= MaxGroupCount)
        THEN [ok |-> FALSE, g |-> group_descriptor(0, 0),
              msg |-> "Invalid group specifier \"%s\": 1 <= N <= M <= 16"]
        ELSE [ok |-> TRUE, g |-> group_descriptor(r.threshold, r.count),
              msg |-> ""]

\* ok = FALSE is the argp_error call that ends the process, with its message.
parse_group_spec(string) ==
    LET r == sscanf_group(string)
    IN  IF r.items # 2
        THEN [ok |-> FALSE, g |-> group_descriptor(0, 0),
              msg |-> "Could not parse group specifier: \"%s\""]
        ELSE IF ~(0 < r.threshold /\ r.threshold <= r.count
                  /\ r.count <= MaxGroupCount)
        THEN [ok |-> FALSE, g |-> group_descriptor(0, 0),
              msg |-> "Invalid group specifier \"%s\": 1 <= N <= M <= 16"]
        ELSE IF r.count > 1 /\ r.threshold = 1
        THEN [ok |-> FALSE, g |-> group_descriptor(0, 0),
              msg |-> "Invalid group specifier. 1-of-M groups where M > 1 are not supported."]
        ELSE [ok |-> TRUE, g |-> group_descriptor(r.threshold, r.count),
              msg |-> ""]

---------------------------------------------------------------------------
(* Formats.  A Format object is a record; its name field is Format::name.  *)

NULL == [name |-> "NULL"]

FormatKeys == {"random", "hex", "bits", "cards", "dice", "base6", "base10",
               "ints", "bip39", "slip39", "bc32"}

\* Format::key_for_string: the key of a format name, or unknown.
key_for_string(s) == IF s \in FormatKeys THEN s ELSE "unknown"

IntsDefaultLow == 1
IntsDefaultHigh == 9

FormatInts == [name |-> "ints", low |-> IntsDefaultLow, high |-> IntsDefaultHigh]

FormatSLIP39 == [name |-> "slip39", groups_threshold |-> 1, groups |-> <<>>]

\* new FormatX() for key k
NewFormat(k) ==
    CASE k = "ints" -> FormatInts
      [] k = "slip39" -> FormatSLIP39
      [] OTHER -> [name |-> k]

is_random(f) == f.name = "random"
is_hex(f) == f.name = "hex"
is_bc32(f) == f.name = "bc32"
is_bip39(f) == f.name = "bip39"
is_slip39(f) == f.name = "slip39"
is_ints(f) == f.name = "ints"

\* FormatBIP39::is_seed_length_valid
bip39_is_seed_length_valid(n) == 12 <= n /\ n <= 32 /\ n % 2 = 0

\* FormatSLIP39::is_seed_length_valid
slip39_is_seed_length_valid(n) == 16 <= n /\ n <= 32 /\ n % 2 = 0

MAX_GROUPS == 16

\* Positional arguments and stdin lines that are Uniform Resources, with the
\* type tag UR's constructor decodes from them.
URTypes ==
    [x \in {"ur:crypto-seed/a", "ur:crypto-bip39/b", "ur:crypto-slip39/c",
            "ur:crypto-psbt/d"} |->
        CASE x = "ur:crypto-seed/a" -> "crypto-seed"
          [] x = "ur:crypto-bip39/b" -> "crypto-bip39"
          [] x = "ur:crypto-slip39/c" -> "crypto-slip39"
          [] x = "ur:crypto-psbt/d" -> "crypto-psbt"]

\* new UR(input): the decoded type tag, or a throw when the input is no UR.
UR(in) ==
    IF in[1] \in DOMAIN URTypes
    THEN [ok |-> TRUE, type |-> URTypes[in[1]], what |-> ""]
    ELSE [ok |-> FALSE, type |-> "", what |-> "Invalid UR."]

---------------------------------------------------------------------------
(* Control: Params::validate, argp_error and parse_opt's catch clause.     *)

\* Params::validate with the output format resolved before the input is read
validate_output_first ==
    <<"validate_count", "validate_deterministic", "validate_input_format",
      "validate_output_format", "validate_input",
      "validate_count_for_input_format", "validate_output_for_input",
      "validate_ints_specific", "validate_bip39_specific",
      "validate_slip39_specific", "validate_ur">>

\* The calls of Params::validate, in order.
validate ==
    <<"validate_count", "validate_deterministic", "validate_input_format",
      "validate_input", "validate_count_for_input_format",
      "validate_output_format", "validate_output_for_input",
      "validate_ints_specific", "validate_bip39_specific",
      "validate_slip39_specific", "validate_ur">>

\* where control goes when method step returns
after(step) ==
    LET i == CHOOSE k \in 1..Len(validate) : validate[k] = step
    IN  IF i = Len(validate) THEN "done" ELSE validate[i + 1]

NoError == [msg |-> "", args |-> <<>>]

\* argp_error(state, msg, args...): prints the diagnostic and exits.
argp_error(msg, args) ==
    /\ err' = [msg |-> msg, args |-> args]
    /\ pc' = "exit"

\* parse_opt's catch clause: argp_error(state, "%s", e.what()).
catch(what) == argp_error(what, <<>>)

\* the method returns normally
return(step) ==
    /\ err' = err
    /\ pc' = after(step)

---------------------------------------------------------------------------
(* The steps of Params::validate.                                          *)

\* validate_count with the upper limit off by one
count_out_of_range_upper(c) == c < 1 \/ c >= 64

\* the condition of validate_count's argp_error
count_out_of_range(c) == c < 1 \/ c > 64

validate_count ==
    /\ pc = "validate_count"
    /\ ran' = Append(ran, "validate_count")
    /\ LET r == IF raw.count # <<>> THEN stoi(raw.count)
                ELSE [ok |-> TRUE, v |-> 16, what |-> ""]
       IN  IF ~r.ok
           THEN count' = count /\ catch(r.what)
           ELSE /\ count' = r.v
                /\ IF count_out_of_range(r.v)
                   THEN argp_error("COUNT must be in [1-64].", <<>>)
                   ELSE return("validate_count")
    /\ UNCHANGED <<raw, cin, rng, input_format, output_format, is_ur_in,
                   is_ur_out, max_part_length, input, ur, cin_reads, resolved>>

validate_deterministic ==
    /\ pc = "validate_deterministic"
    /\ ran' = Append(ran, "validate_deterministic")
    /\ rng' = IF raw.random_deterministic # "" THEN "deterministic_random"
              ELSE "crypto_random"
    /\ return("validate_deterministic")
    /\ UNCHANGED <<raw, cin, count, input_format, output_format, is_ur_in,
                   is_ur_out, max_part_length, input, ur, cin_reads, resolved>>

validate_input_format ==
    /\ pc = "validate_input_format"
    /\ ran' = Append(ran, "validate_input_format")
    /\ IF raw.input_format = ""
       THEN /\ input_format' = NewFormat("random")
            /\ resolved' = resolved + 1
            /\ is_ur_in' = is_ur_in
            /\ return("validate_input_format")
       ELSE IF raw.input_format = "ur"
       THEN /\ is_ur_in' = TRUE
            /\ UNCHANGED <<input_format, resolved>>
            /\ return("validate_input_format")
       ELSE IF key_for_string(raw.input_format) \in FormatKeys
       THEN /\ input_format' = NewFormat(key_for_string(raw.input_format))
            /\ resolved' = resolved + 1
            /\ is_ur_in' = is_ur_in
            /\ return("validate_input_format")
       ELSE /\ UNCHANGED <<input_format, resolved, is_ur_in>>
            /\ argp_error("Unknown input format: %s", <<raw.input_format>>)
    /\ UNCHANGED <<raw, cin, count, rng, output_format, is_ur_out,
                   max_part_length, input, ur, cin_reads>>

\* The switch of validate_output_format has no case for Format::Key::random.
OutputKeys == FormatKeys \ {"random"}

validate_output_format ==
    /\ pc = "validate_output_format"
    /\ ran' = Append(ran, "validate_output_format")
    /\ IF raw.output_format = ""
       THEN /\ output_format' = NewFormat("hex")
            /\ return("validate_output_format")
       ELSE IF key_for_string(raw.output_format) \in OutputKeys
       THEN /\ output_format' = NewFormat(key_for_string(raw.output_format))
            /\ return("validate_output_format")
       ELSE /\ output_format' = output_format
            /\ argp_error("Unknown output format: %s", <<raw.output_format>>)
    /\ UNCHANGED <<raw, cin, count, rng, input_format, is_ur_in, is_ur_out,
                   max_part_length, input, ur, cin_reads, resolved>>

\* validate_output_for_input with is_ur_in forgotten in the BIP39 rule
output_for_input_ok_any_bip39(inf, outf, urin) ==
    \/ is_hex(outf) \/ is_bc32(outf)
    \/ is_random(inf) \/ is_hex(inf) \/ is_bc32(inf)
    \/ is_bip39(inf) /\ is_bip39(outf)
    \/ urin /\ is_slip39(inf) /\ is_slip39(outf)

\* The decision of validate_output_for_input: TRUE when one of its rules
\* returns, FALSE when it reaches the argp_error call.
output_for_input_ok(inf, outf, urin) ==
    IF is_hex(outf) THEN TRUE
    ELSE IF is_bc32(outf) THEN TRUE
    ELSE IF is_random(inf) THEN TRUE
    ELSE IF is_hex(inf) THEN TRUE
    ELSE IF is_bc32(inf) THEN TRUE
    ELSE IF urin /\ is_bip39(inf) /\ is_bip39(outf) THEN TRUE
    ELSE IF urin /\ is_slip39(inf) /\ is_slip39(outf) THEN TRUE
    ELSE FALSE

validate_output_for_input ==
    /\ pc = "validate_output_for_input"
    /\ ran' = Append(ran, "validate_output_for_input")
    /\ IF output_for_input_ok(input_format, output_format, is_ur_in)
       THEN return("validate_output_for_input")
       ELSE argp_error("Input format %s cannot be used with output format %s",
                       <<input_format.name, output_format.name>>)
    /\ UNCHANGED <<raw, cin, count, rng, input_format, output_format, is_ur_in,
                   is_ur_out, max_part_length, input, ur, cin_reads, resolved>>

\* the range check of validate_ints_specific with <= for <
ints_range_ok_nonstrict(low, high) == 0 <= low /\ low <= high /\ high <= 255

\* the range validate_ints_specific requires
ints_range_ok(low, high) == 0 <= low /\ low < high /\ high <= 255

validate_ints_specific ==
    /\ pc = "validate_ints_specific"
    /\ ran' = Append(ran, "validate_ints_specific")
    /\ IF is_ints(output_format)
       THEN LET l == IF raw.ints_low # <<>> THEN stoi(raw.ints_low)
                     ELSE [ok |-> TRUE, v |-> output_format.low, what |-> ""]
                h == IF raw.ints_high # <<>> THEN stoi(raw.ints_high)
                     ELSE [ok |-> TRUE, v |-> output_format.high, what |-> ""]
            IN  IF ~l.ok
                THEN output_format' = output_format /\ catch(l.what)
                ELSE IF ~h.ok
                THEN output_format' = output_format /\ catch(h.what)
                ELSE IF ~ints_range_ok(l.v, h.v)
                THEN /\ output_format' = output_format
                     /\ argp_error("--low and --high must specify a range in [0-255].", <<>>)
                ELSE /\ output_format' =
                            [output_format EXCEPT !.low = l.v, !.high = h.v]
                     /\ return("validate_ints_specific")
       ELSE /\ output_format' = output_format
            /\ IF raw.ints_low # <<>>
               THEN argp_error("Option --low can only be used with the \"ints\" output format.", <<>>)
               ELSE IF raw.ints_high # <<>>
               THEN argp_error("Option --high can only be used with the \"ints\" output format.", <<>>)
               ELSE return("validate_ints_specific")
    /\ UNCHANGED <<raw, cin, count, rng, input_format, is_ur_in, is_ur_out,
                   max_part_length, input, ur, cin_reads, resolved>>

validate_bip39_specific ==
    /\ pc = "validate_bip39_specific"
    /\ ran' = Append(ran, "validate_bip39_specific")
    /\ IF is_bip39(output_format) /\ ~bip39_is_seed_length_valid(count)
       THEN argp_error("For BIP39 COUNT must be in [12-32] and even.", <<>>)
       ELSE return("validate_bip39_specific")
    /\ UNCHANGED <<raw, cin, count, rng, input_format, output_format, is_ur_in,
                   is_ur_out, max_part_length, input, ur, cin_reads, resolved>>

RECURSIVE parse_groups(_, _, _)
\* The loop over raw.slip39_groups: the descriptors pushed to groups, up to
\* the first specifier parse_group_spec rejects.
parse_groups(specs, i, groups) ==
    IF i > Len(specs) THEN [ok |-> TRUE, groups |-> groups, msg |-> "", at |-> 0]
    ELSE LET r == parse_group_spec(specs[i])
         IN  IF ~r.ok
             THEN [ok |-> FALSE, groups |-> groups, msg |-> r.msg, at |-> i]
             ELSE parse_groups(specs, i + 1, Append(groups, r.g))

\* groups of validate_slip39_specific once the branches on raw_groups_count
\* are through (the branch on MAX_GROUPS has called argp_error before).
resolve_groups(specs) ==
    IF Len(specs) = 0
    THEN [ok |-> TRUE, groups |-> <<group_descriptor(1, 1)>>, msg |-> "", at |-> 0]
    ELSE parse_groups(specs, 1, <<>>)

\* the threshold check of validate_slip39_specific with < for <=
groups_threshold_ok_strict(t, n) == 0 < t /\ as_size_t(t) < n

\* the groups threshold validate_slip39_specific requires; the int is
\* converted to size_t for the comparison with groups.size()
groups_threshold_ok(t, n) == 0 < t /\ as_size_t(t) <= n

validate_slip39_specific ==
    /\ pc = "validate_slip39_specific"
    /\ ran' = Append(ran, "validate_slip39_specific")
    /\ IF ~is_slip39(output_format)
       THEN /\ output_format' = output_format
            /\ IF Len(raw.slip39_groups) > 0
               THEN argp_error("Option --group can only be used with the \"slip39\" output format.", <<>>)
               ELSE IF raw.slip39_groups_threshold # <<>>
               THEN argp_error("Option --group-threshold can only be used with the \"slip39\" output format.", <<>>)
               ELSE return("validate_slip39_specific")
       ELSE IF ~slip39_is_seed_length_valid(count)
       THEN /\ output_format' = output_format
            /\ argp_error("For BIP39 COUNT must be in [16-32] and even.", <<>>)
       ELSE IF Len(raw.slip39_groups) > MAX_GROUPS
       THEN /\ output_format' = output_format
            /\ argp_error("There must be no more than %d groups.", <<MAX_GROUPS>>)
       ELSE LET g == resolve_groups(raw.slip39_groups)
                t == IF raw.slip39_groups_threshold = <<>>
                     THEN [ok |-> TRUE, v |-> 1, what |-> ""]
                     ELSE stoi(raw.slip39_groups_threshold)
            IN  IF ~g.ok
                THEN /\ output_format' = output_format
                     /\ argp_error(g.msg, <<raw.slip39_groups[g.at]>>)
                ELSE IF ~t.ok
                THEN output_format' = output_format /\ catch(t.what)
                ELSE IF ~groups_threshold_ok(t.v, Len(g.groups))
                THEN /\ output_format' = output_format
                     /\ argp_error("Group threshold must be <= the number of groups.", <<>>)
                ELSE /\ output_format' =
                            [output_format EXCEPT !.groups_threshold = t.v,
                                                  !.groups = g.groups]
                     /\ return("validate_slip39_specific")
    /\ UNCHANGED <<raw, cin, count, rng, input_format, is_ur_in, is_ur_out,
                   max_part_length, input, ur, cin_reads, resolved>>

\* read_args_from_stdin stopping after the first line
read_args_from_stdin_first_line(args, lines) ==
    IF lines = <<>> THEN args ELSE Append(args, lines[1])

\* read_args_from_stdin dropping the last line, as for a stream that does not
\* end in a newline
read_args_from_stdin_drop_last(args, lines) ==
    IF lines = <<>> THEN args ELSE args \o SubSeq(lines, 1, Len(lines) - 1)

\* Params::read_args_from_stdin: every line up to end of stream is pushed to
\* raw.args.  The result is the new raw.args; cin is left empty.
read_args_from_stdin(args, lines) == args \o lines

\* format_for_ur_type with crypto-seed resolved to BC32
format_for_ur_type_bc32(type) ==
    CASE type = "crypto-seed" -> [name |-> "bc32"]
      [] type = "crypto-bip39" -> [name |-> "bip39"]
      [] type = "crypto-slip39" -> [name |-> "slip39"]
      [] OTHER -> [name |-> "NULL"]

\* The format validate_input resolves from a UR type tag, NULL for no match.
format_for_ur_type(type) ==
    CASE type = "crypto-seed" -> NewFormat("hex")
      [] type = "crypto-bip39" -> NewFormat("bip39")
      [] type = "crypto-slip39" -> NewFormat("slip39")
      [] OTHER -> NULL

validate_input ==
    /\ pc = "validate_input"
    /\ ran' = Append(ran, "validate_input")
    /\ IF is_random(input_format)
       THEN /\ UNCHANGED <<raw, cin, cin_reads, input, ur, input_format, resolved>>
            /\ IF raw.args # <<>>
               THEN argp_error("Do not provide arguments when using the random (default) input format.", <<>>)
               ELSE return("validate_input")
       ELSE LET reads == raw.args = <<>>
                args == IF reads THEN read_args_from_stdin(raw.args, cin)
                        ELSE raw.args
                u == UR(args)
            IN  /\ raw' = [raw EXCEPT !.args = args]
                /\ cin' = IF reads THEN <<>> ELSE cin
                /\ cin_reads' = IF reads THEN cin_reads + 1 ELSE cin_reads
                /\ input' = args
                /\ IF args = <<>>
                   THEN /\ UNCHANGED <<ur, input_format, resolved>>
                        /\ argp_error("No input provided.", <<>>)
                   ELSE IF ~is_ur_in
                   THEN /\ UNCHANGED <<ur, input_format, resolved>>
                        /\ return("validate_input")
                   ELSE IF ~u.ok
                   THEN /\ UNCHANGED <<ur, input_format, resolved>>
                        /\ catch(u.what)
                   ELSE IF format_for_ur_type(u.type) = NULL
                   THEN /\ ur' = u.type
                        /\ UNCHANGED <<input_format, resolved>>
                        /\ argp_error("Unknown UR type.", <<>>)
                   ELSE /\ ur' = u.type
                        /\ input_format' = format_for_ur_type(u.type)
                        /\ resolved' = resolved + 1
                        /\ return("validate_input")
    /\ UNCHANGED <<count, rng, output_format, is_ur_in, is_ur_out,
                   max_part_length>>

validate_count_for_input_format ==
    /\ pc = "validate_count_for_input_format"
    /\ ran' = Append(ran, "validate_count_for_input_format")
    /\ IF is_hex(input_format) /\ raw.count # <<>>
       THEN argp_error("The --count option is not available for hex input.", <<>>)
       ELSE IF ~is_hex(input_format) /\ is_bc32(input_format) /\ raw.count # <<>>
       THEN argp_error("The --count option is not available for BC32 input.", <<>>)
       ELSE return("validate_count_for_input_format")
    /\ UNCHANGED <<raw, cin, count, rng, input_format, output_format, is_ur_in,
                   is_ur_out, max_part_length, input, ur, cin_reads, resolved>>

DefaultMaxPartLength == 2500

\* the formats of validate_ur with bc32 let through
ur_output_ok_bc32(f) == is_hex(f) \/ is_bip39(f) \/ is_slip39(f) \/ is_bc32(f)

\* the output formats validate_ur returns on
ur_output_ok(f) == is_hex(f) \/ is_bip39(f) \/ is_slip39(f)

validate_ur ==
    /\ pc = "validate_ur"
    /\ ran' = Append(ran, "validate_ur")
    /\ IF ~raw.is_ur
       THEN /\ UNCHANGED <<is_ur_out, max_part_length>>
            /\ return("validate_ur")
       ELSE IF is_ur_in
       THEN /\ UNCHANGED <<is_ur_out, max_part_length>>
            /\ argp_error("The --ur option may not be combined with the --in ur input method.", <<>>)
       ELSE LET m == IF raw.max_part_length = <<>>
                     THEN [ok |-> TRUE, v |-> DefaultMaxPartLength, what |-> ""]
                     ELSE stoi(raw.max_part_length)
            IN  /\ is_ur_out' = TRUE
                /\ IF ~m.ok
                   THEN max_part_length' = max_part_length /\ catch(m.what)
                   ELSE /\ max_part_length' = m.v
                        /\ IF ur_output_ok(output_format)
                           THEN return("validate_ur")
                           ELSE argp_error("The --ur option is only available for hex, BIP39 and SLIP39 output.", <<>>)
    /\ UNCHANGED <<raw, cin, count, rng, input_format, output_format, is_ur_in,
                   input, ur, cin_reads, resolved>>

Next ==
    \/ validate_count
    \/ validate_deterministic
    \/ validate_input_format
    \/ validate_input
    \/ validate_count_for_input_format
    \/ validate_output_format
    \/ validate_output_for_input
    \/ validate_ints_specific
    \/ validate_bip39_specific
    \/ validate_slip39_specific
    \/ validate_ur

---------------------------------------------------------------------------
(* Command lines.  parse_opt stores every option verbatim in raw; the      *)
(* initial states are the states at ARGP_KEY_END, before validate runs.    *)

\* all sequences over S of length at most n
Seqs(S, n) == UNION {[1..k -> S] : k \in 0..n}

DigitChar == <<"0", "1", "2", "3", "4", "5", "6", "7", "8", "9">>

RECURSIVE DecDigits(_)
DecDigits(n) ==
    IF n < 10 THEN <<DigitChar[n + 1]>>
    ELSE DecDigits(n \div 10) \o <<DigitChar[(n % 10) + 1]>>

\* the decimal numeral of n
Dec(n) == IF n < 0 THEN <<"-">> \o DecDigits(0 - n) ELSE DecDigits(n)

\* numerals of the values V as a user may type them: plain, with a sign,
\* with white space in front, with other characters behind
Typed(V) ==
    {Dec(v) : v \in V}
        \cup {<<"+">> \o Dec(v) : v \in {w \in V : w >= 0}}
        \cup {<<" ">> \o Dec(v) : v \in V}
        \cup {Dec(v) \o <<"x">> : v \in V}

NumChars == {"0", "1", "6", "-", "+", "x", " "}

\* every string over NumChars up to the bound: numerals and junk alike
ShortStrings == Seqs(NumChars, MaxNumLen)

\* the numerals of INT_MAX and INT_MIN
IntEdgeNumerals ==
    {<<"2", "1", "4", "7", "4", "8", "3", "6", "4", "7">>,
     <<"-", "2", "1", "4", "7", "4", "8", "3", "6", "4", "8">>}

\* numerals beyond int
BeyondIntNumerals ==
    {<<"2", "1", "4", "7", "4", "8", "3", "6", "4", "8">>,
     <<"-", "2", "1", "4", "7", "4", "8", "3", "6", "4", "9">>,
     <<"9", "9", "9", "9", "9", "9", "9", "9", "9", "9", "9">>}

HugeNumerals == IntEdgeNumerals \cup BeyondIntNumerals

ArgAtoms == {"deadbeef"} \cup DOMAIN URTypes

\* RawParams as Params' constructor leaves it: nothing given
RawDefault ==
    [count |-> <<>>, random_deterministic |-> "", input_format |-> "",
     output_format |-> "", ints_low |-> <<>>, ints_high |-> <<>>,
     slip39_groups_threshold |-> <<>>, slip39_groups |-> <<>>,
     is_ur |-> FALSE, max_part_length |-> <<>>, args |-> <<>>]

\* The state parse_opt hands to validate: raw is one of the command lines R,
\* standard input holds one of the line sequences C, and every other member
\* of Params is as constructed.
ParsedWith(R, C) ==
    /\ raw \in R
    /\ cin \in C
    /\ count = 0
    /\ rng = "NULL"
    /\ input_format = NULL
    /\ output_format = NULL
    /\ is_ur_in = FALSE
    /\ is_ur_out = FALSE
    /\ max_part_length = 0
    /\ input = <<>>
    /\ ur = "NULL"
    /\ pc = validate[1]
    /\ err = NoError
    /\ ran = <<>>
    /\ cin_reads = 0
    /\ resolved = 0

InNames == FormatKeys \cup {"", "ur", "bogus"}
OutNames == FormatKeys \cup {"", "bogus"}

\* --in and --out over every name, with and without input
CompatLines ==
    {[RawDefault EXCEPT !.input_format = i, !.output_format = o, !.args = a] :
        i \in InNames, o \in OutNames, a \in Seqs(ArgAtoms, 1)}

Init == ParsedWith(CompatLines, {<<>>})

\* --count over numerals and junk, with random, bits and hex input
CountLines ==
    {[RawDefault EXCEPT !.count = c, !.input_format = i[1], !.args = i[2],
                        !.output_format = o] :
        c \in ShortStrings \cup Typed((0 - 2)..66) \cup HugeNumerals,
        i \in {<<"", <<>>>>, <<"bits", <<"deadbeef">>>>, <<"hex", <<"deadbeef">>>>},
        o \in {"", "bip39", "slip39"}}

InitCount == ParsedWith(CountLines, {<<>>})

GroupNumerals == {Dec(n) : n \in (0 - 1)..MaxGroupNum} \cup {<<>>, <<"x">>}

GroupSeparators == {OfLiteral, <<"o", "f">>, <<"-">>}

GroupPrefixes == {<<>>, <<" ">>, <<"+">>}

GroupSuffixes == {<<>>, <<"x">>}

\* group specifiers as a user may type them, well formed and not
GroupSpecStrings ==
    {pre \o T \o sep \o N \o suf :
        pre \in GroupPrefixes, T \in GroupNumerals, sep \in GroupSeparators,
        N \in GroupNumerals, suf \in GroupSuffixes}

\* --out slip39 with one --group
GroupLines ==
    {[RawDefault EXCEPT !.output_format = "slip39", !.slip39_groups = <<g>>] :
        g \in GroupSpecStrings}

InitGroup == ParsedWith(GroupLines, {<<>>})

IntsValues == {0 - 1, 0, 1, 5, 8, 9, 10, 254, 255, 256}

IntsStrings == {<<>>, <<"x">>, <<"5", "x">>} \cup {Dec(v) : v \in IntsValues}

\* --low and --high with ints and other output formats
IntsLines ==
    {[RawDefault EXCEPT !.ints_low = l, !.ints_high = h, !.output_format = o,
                        !.input_format = i[1], !.args = i[2]] :
        l \in IntsStrings, h \in IntsStrings,
        o \in {"ints", "hex", "bits", ""},
        i \in {<<"", <<>>>>, <<"hex", <<"deadbeef">>>>}}

InitInts == ParsedWith(IntsLines, {<<>>})

\* specifiers with the descriptor each denotes; the last one is rejected
KnownGroupSpecs ==
    {<<"2", "-", "o", "f", "-", "3">>, <<"1", "-", "o", "f", "-", "1">>,
     <<"1", "-", "o", "f", "-", "2">>}

ThresholdStrings ==
    {<<>>, <<"x">>} \cup {Dec(t) : t \in (0 - 1)..(MaxGroupList + 1)}

\* --group lists and --group-threshold, with and without --out slip39
SlipLines ==
    {[RawDefault EXCEPT !.slip39_groups = g, !.slip39_groups_threshold = t,
                        !.count = c, !.output_format = o] :
        g \in Seqs(KnownGroupSpecs, MaxGroupList)
                \cup {[k \in 1..(MAX_GROUPS + 1) |-> Dec(1) \o OfLiteral \o Dec(1)]},
        t \in ThresholdStrings,
        c \in {<<>>, Dec(15), Dec(32)},
        o \in {"slip39", "", "bip39"}}

InitSlip == ParsedWith(SlipLines, {<<>>})

\* an input format with the positional arguments given to it
InputsGiven ==
    {<<"", <<>>>>, <<"hex", <<"deadbeef">>>>, <<"bip39", <<"deadbeef">>>>,
     <<"ur", <<"deadbeef">>>>}
        \cup {<<"ur", <<u>>>> : u \in DOMAIN URTypes}

\* --ur given alone, with a length, with junk, and not given
UrOptions ==
    {<<FALSE, <<>>>>, <<TRUE, <<>>>>, <<TRUE, Dec(100)>>, <<TRUE, <<"x">>>>}

\* --ur with every output name, with direct and UR input
UrLines ==
    {[RawDefault EXCEPT !.is_ur = u[1], !.max_part_length = u[2],
                        !.input_format = i[1], !.args = i[2],
                        !.output_format = o] :
        u \in UrOptions, i \in InputsGiven, o \in OutNames}

InitUr == ParsedWith(UrLines, {<<>>})

\* every input name with positional arguments, with lines on standard input
InputLines ==
    {[RawDefault EXCEPT !.input_format = i, !.args = a] :
        i \in InNames, a \in Seqs({"deadbeef", "ur:crypto-seed/a"}, MaxArgs)}

InitInput ==
    ParsedWith(InputLines, Seqs({"cafe", "ur:crypto-bip39/b"}, MaxLines))

\* --count with every input name, the input typed or on standard input
CountFormatLines ==
    {[RawDefault EXCEPT !.count = c, !.input_format = i, !.args = a] :
        c \in {<<>>, Dec(16)}, i \in InNames, a \in Seqs(ArgAtoms, 1)}

InitCountFormat ==
    ParsedWith(CountFormatLines, {<<>>, <<"ur:crypto-seed/a">>})

\* command lines that break several rules at once
OrderLines ==
    {[RawDefault EXCEPT !.count = c, !.input_format = i, !.args = a,
                        !.output_format = o, !.ints_low = l,
                        !.slip39_groups = g, !.is_ur = u] :
        c \in {<<>>, Dec(16), Dec(0), <<"x">>},
        i \in {"", "hex", "bc32", "bits", "bip39", "ur", "bogus"},
        a \in {<<>>, <<"deadbeef">>, <<"ur:crypto-seed/a">>, <<"ur:crypto-psbt/d">>},
        o \in {"", "bip39", "ints", "bits", "bogus"},
        l \in {<<>>, Dec(300)},
        g \in {<<>>, <<Dec(1) \o OfLiteral \o Dec(2)>>},
        u \in BOOLEAN}

InitOrder == ParsedWith(OrderLines, {<<>>, <<"ur:crypto-seed/a">>})

Spec == Init /\ [][Next]_vars

SpecCount == InitCount /\ [][Next]_vars

SpecGroup == InitGroup /\ [][Next]_vars

SpecInts == InitInts /\ [][Next]_vars

SpecSlip == InitSlip /\ [][Next]_vars

SpecUr == InitUr /\ [][Next]_vars

SpecInput == InitInput /\ [][Next]_vars

SpecCountFormat == InitCountFormat /\ [][Next]_vars

SpecOrder == InitOrder /\ [][Next]_vars

---------------------------------------------------------------------------
(* Properties.                                                             *)

\* method step is the last one that ran
JustRan(step) == Len(ran) > 0 /\ ran[Len(ran)] = step

\* method step has run
HasRun(step) == \E k \in 1..Len(ran) : ran[k] = step

Exited == pc = "exit"

\* C1's acceptance rule, over format names
CompatibleNames(i, o, u) ==
    \/ o = "hex"
    \/ o = "bc32"
    \/ i \in {"random", "hex", "bc32"}
    \/ u /\ i = "bip39" /\ o = "bip39"
    \/ u /\ i = "slip39" /\ o = "slip39"

\* C1: validate_output_for_input accepts exactly when the output is hex or
\* bc32, or the input is random, hex or bc32, or the input came as a UR and
\* input and output are both bip39 or both slip39; otherwise it rejects with
\* the error naming both formats.  bip39 typed directly with bip39 output, and
\* slip39 from a UR with bip39 output, are rejected.
C1_CompatibilityDecision ==
    JustRan("validate_output_for_input") =>
        /\ ~Exited <=> CompatibleNames(input_format.name, output_format.name,
                                       is_ur_in)
        /\ Exited =>
              /\ err.msg = "Input format %s cannot be used with output format %s"
              /\ err.args = <<input_format.name, output_format.name>>
        /\ ~Exited => err = NoError
        /\ (~is_ur_in /\ input_format.name \in {"bip39", "slip39"}
                /\ output_format.name = input_format.name) => Exited
        /\ (is_ur_in /\ input_format.name = "slip39"
                /\ output_format.name = "bip39") => Exited

C1_Witness ==
    /\ JustRan("validate_output_for_input")
    /\ Exited
    /\ is_ur_in
    /\ input_format.name = "slip39"
    /\ output_format.name = "bip39"

\* a decimal numeral and nothing else: digits, with an optional minus sign
IsNumeral(s) ==
    LET d == IF IsNegative(s, 1) THEN 2 ELSE 1
    IN  /\ Len(s) >= d
        /\ \A k \in d..Len(s) : s[k] \in DigitChars

RECURSIVE SkipZeros(_, _)
SkipZeros(s, i) ==
    IF i < Len(s) /\ s[i] = "0" THEN SkipZeros(s, i + 1) ELSE i

\* whether the numeral s denotes a value in lo..hi, for 0 <= lo and hi < 1000
NumeralWithin(s, lo, hi) ==
    LET z == SkipZeros(s, 1)
    IN  /\ ~IsNegative(s, 1)
        /\ Len(s) - z + 1 <= 3
        /\ DecimalValue(s, z, Len(s) + 1, 0) \in lo..hi

CountError == "COUNT must be in [1-64]."

IsTofN(s) ==
    \E k \in 1..Len(s) :
        /\ \A j \in 1..k : s[j] \in DigitChars
        /\ MatchesLiteral(s, k + 1)
        /\ k + Len(OfLiteral) < Len(s)
        /\ \A j \in (k + Len(OfLiteral) + 1)..Len(s) : s[j] \in DigitChars

\* the GroupDescriptor invariant
GroupInvariant(t, n) == 1 <= t /\ t <= n /\ n <= 16 /\ (n > 1 => t # 1)

GroupParseError == "Could not parse group specifier: \"%s\""

GroupErrors ==
    {GroupParseError,
     "Invalid group specifier \"%s\": 1 <= N <= M <= 16",
     "Invalid group specifier. 1-of-M groups where M > 1 are not supported."}

\* the one --group specifier of the command line, once the step that parses
\* it has run
ParsedGroup == raw.slip39_groups[1]

GroupStepRan ==
    /\ JustRan("validate_slip39_specific")
    /\ Len(raw.slip39_groups) = 1

UnparsableGroupSpecs ==
    {pre \o T \o sep \o N \o suf :
        pre \in GroupPrefixes, T \in GroupNumerals,
        sep \in GroupSeparators \ {OfLiteral},
        N \in GroupNumerals, suf \in GroupSuffixes}
    \cup
    {pre \o T \o sep \o N \o suf :
        pre \in GroupPrefixes, T \in {<<>>, <<"x">>}, sep \in {OfLiteral},
        N \in GroupNumerals, suf \in GroupSuffixes}
    \cup
    {pre \o T \o sep \o N \o suf :
        pre \in GroupPrefixes, T \in GroupNumerals, sep \in {OfLiteral},
        N \in {<<>>, <<"x">>}, suf \in GroupSuffixes}
    \cup
    {<<"+">> \o Dec(0 - 1) \o sep \o N \o suf :
        sep \in {OfLiteral}, N \in GroupNumerals, suf \in GroupSuffixes}

\* the strings of GroupSpecStrings in which "%zd-of-%zd" finds T and N, with
\* the numbers it finds
ParsableGroupSpecs ==
    {[string |-> pre \o Dec(t) \o OfLiteral \o Dec(n) \o suf, T |-> t, N |-> n] :
        pre \in {<<>>, <<" ">>}, suf \in GroupSuffixes,
        t \in (0 - 1)..MaxGroupNum, n \in (0 - 1)..MaxGroupNum}
    \cup
    {[string |-> <<"+">> \o Dec(t) \o OfLiteral \o Dec(n) \o suf, T |-> t, N |-> n] :
        suf \in GroupSuffixes, t \in 0..MaxGroupNum, n \in (0 - 1)..MaxGroupNum}

IntsRangeError == "--low and --high must specify a range in [0-255]."

\* C5: with ints output the step passes exactly when 0 <= low < high <= 255,
\* low and high being the overrides where given and the defaults 1 and 9
\* where not, each on its own, and the output format then carries that range;
\* with any other output format --low or --high makes the step fail.
C5_IntsRange ==
    JustRan("validate_ints_specific") =>
        /\ is_ints(output_format) =>
              \A l, h \in IntsValues \cup {1000} :
                  LET low == IF l = 1000 THEN 1 ELSE l
                      high == IF h = 1000 THEN 9 ELSE h
                  IN  (/\ raw.ints_low = IF l = 1000 THEN <<>> ELSE Dec(l)
                       /\ raw.ints_high = IF h = 1000 THEN <<>> ELSE Dec(h)) =>
                          IF 0 <= low /\ low < high /\ high <= 255
                          THEN /\ ~Exited
                               /\ output_format.low = low
                               /\ output_format.high = high
                          ELSE Exited /\ err.msg = IntsRangeError
        /\ (is_ints(output_format) /\ ~Exited) =>
              /\ 0 <= output_format.low
              /\ output_format.low < output_format.high
              /\ output_format.high <= 255
        /\ ~is_ints(output_format) =>
              /\ Exited <=> (raw.ints_low # <<>> \/ raw.ints_high # <<>>)
              /\ raw.ints_low # <<>> =>
                    err.msg = "Option --low can only be used with the \"ints\" output format."
              /\ (raw.ints_low = <<>> /\ raw.ints_high # <<>>) =>
                    err.msg = "Option --high can only be used with the \"ints\" output format."

C5_Witness ==
    /\ JustRan("validate_ints_specific")
    /\ raw.input_format = "hex"
    /\ raw.ints_low = <<"5">>
    /\ raw.ints_high = <<"1", "0">>
    /\ ~Exited
    /\ output_format = [name |-> "ints", low |-> 5, high |-> 10]

GroupThresholdError == "Group threshold must be <= the number of groups."

\* the descriptor each accepted specifier of KnownGroupSpecs denotes
KnownGroup(g) ==
    IF g = <<"2", "-", "o", "f", "-", "3">> THEN group_descriptor(2, 3)
    ELSE group_descriptor(1, 1)

AcceptedGroupSpecs ==
    {<<"2", "-", "o", "f", "-", "3">>, <<"1", "-", "o", "f", "-", "1">>}

\* C6: with slip39 output, a valid count, at most MAX_GROUPS specifiers that
\* all parse, and a numeric threshold, the step succeeds exactly when
\* 1 <= groups_threshold <= number of groups, the threshold being 1 and the
\* groups a single 1-of-1 where not given; it then stores exactly the group
\* list and the threshold, and otherwise fails with the group-threshold error.
C6_GroupsThreshold ==
    (JustRan("validate_slip39_specific") /\ is_slip39(output_format)) =>
        \A t \in ((0 - 1)..(MaxGroupList + 1)) \cup {1000} :
            LET threshold == IF t = 1000 THEN 1 ELSE t
                given == raw.slip39_groups
                groups == IF given = <<>> THEN <<group_descriptor(1, 1)>>
                          ELSE [k \in 1..Len(given) |-> KnownGroup(given[k])]
            IN  (/\ raw.slip39_groups_threshold = IF t = 1000 THEN <<>> ELSE Dec(t)
                 /\ count \in {16, 32}
                 /\ Len(given) <= MaxGroupList
                 /\ \A k \in 1..Len(given) : given[k] \in AcceptedGroupSpecs) =>
                    /\ ~Exited <=> (1 <= threshold /\ threshold <= Len(groups))
                    /\ ~Exited =>
                          /\ output_format.groups_threshold = threshold
                          /\ output_format.groups = groups
                    /\ Exited => err.msg = GroupThresholdError
                    /\ (Len(given) = 3 /\ t \in {0, 4}) => Exited
                    /\ (Len(given) = 3 /\ t = 3) => ~Exited

\* --out slip39 --group 2-of-3 --group 1-of-1 --group-threshold 3 is rejected
\* with the group-threshold error
C6_Witness ==
    /\ JustRan("validate_slip39_specific")
    /\ raw = [RawDefault EXCEPT
                 !.output_format = "slip39",
                 !.slip39_groups = <<<<"2", "-", "o", "f", "-", "3">>,
                                     <<"1", "-", "o", "f", "-", "1">>>>,
                 !.slip39_groups_threshold = <<"3">>]
    /\ Exited
    /\ err.msg = GroupThresholdError

UrExclusiveError ==
    "The --ur option may not be combined with the --in ur input method."

UrOutputError ==
    "The --ur option is only available for hex, BIP39 and SLIP39 output."

\* C7: with --ur the pipeline succeeds only if the input did not come by
\* --in ur and the output is hex, bip39 or slip39; --ur with --in ur fails,
\* with the mutual-exclusion error whatever the output format; --ur with any
\* other output format fails.  Without --ur the step never fails and UR
\* output stays off.
C7_UrOutput ==
    /\ (pc = "done" /\ raw.is_ur) =>
          /\ raw.input_format # "ur"
          /\ ~is_ur_in
          /\ output_format.name \in {"hex", "bip39", "slip39"}
    /\ (JustRan("validate_ur") /\ raw.is_ur /\ raw.input_format = "ur") =>
          Exited /\ err.msg = UrExclusiveError /\ ~is_ur_out
    /\ (JustRan("validate_ur") /\ raw.is_ur /\ raw.input_format # "ur"
            /\ output_format.name \in {"bc32", "bits", "cards", "dice", "base6",
                                       "base10", "ints"}) =>
          /\ Exited
          /\ raw.max_part_length \in {<<>>, Dec(100)} => err.msg = UrOutputError
    /\ ~raw.is_ur =>
          /\ ~is_ur_out
          /\ JustRan("validate_ur") => ~Exited /\ pc = "done"

C7_Witness ==
    /\ JustRan("validate_ur")
    /\ raw.is_ur
    /\ is_ur_in
    /\ output_format.name = "bits"
    /\ Exited
    /\ err.msg = UrExclusiveError

NoInputError == "No input provided."

RandomArgsError ==
    "Do not provide arguments when using the random (default) input format."

\* C8: with the random input format any positional argument is an error and
\* standard input is never read; with every other input format standard
\* input is read exactly when no positional arguments were given, the step
\* fails with "No input provided." exactly when arguments and lines together
\* are empty, and otherwise the input is the arguments if any were given and
\* the lines of standard input if not.
C8_InputAcquisition ==
    /\ [](is_random(input_format) => cin_reads = 0)
    /\ [][pc = "validate_input" =>
            IF is_random(input_format)
            THEN /\ cin' = cin
                 /\ cin_reads' = cin_reads
                 /\ IF raw.args # <<>>
                    THEN pc' = "exit" /\ err'.msg = RandomArgsError
                    ELSE pc' # "exit"
            ELSE /\ cin_reads' = cin_reads + 1 <=> raw.args = <<>>
                 /\ cin' # cin => raw.args = <<>>
                 /\ err'.msg = NoInputError <=> (raw.args = <<>> /\ cin = <<>>)
                 /\ (raw.args = <<>> /\ cin = <<>>) => pc' = "exit"
                 /\ ~(raw.args = <<>> /\ cin = <<>>) =>
                       input' = IF raw.args # <<>> THEN raw.args ELSE cin
         ]_vars

C8_Witness ==
    /\ JustRan("validate_input")
    /\ raw.input_format = "ur"
    /\ cin_reads = 1
    /\ Len(input) = 2
    /\ cin = <<>>

CountHexError == "The --count option is not available for hex input."

CountBC32Error == "The --count option is not available for BC32 input."

C10_AsStated == [][raw' = raw]_vars

\* C10, amended: no step changes the count, deterministic seed, format
\* names, low/high, group threshold, group specs, ur flag or max part length;
\* the positional arguments change only in validate_input, when none were
\* given and the input format is not random, and then become the lines read
\* from standard input.
C10_RawOptionsFrame ==
    [][/\ [raw' EXCEPT !.args = <<>>] = [raw EXCEPT !.args = <<>>]
       /\ raw'.args # raw.args =>
             /\ pc = "validate_input"
             /\ ~is_random(input_format)
             /\ raw.args = <<>>
             /\ raw'.args = cin
             /\ input' = cin
      ]_vars

C10_Witness ==
    /\ JustRan("validate_input")
    /\ cin_reads = 1
    /\ Len(raw.args) = 2
    /\ input = raw.args

\* the diagnostics each step can end with
StepErrors(step) ==
    CASE step = "validate_count" -> {CountError, "stoi"}
      [] step = "validate_deterministic" -> {}
      [] step = "validate_input_format" -> {"Unknown input format: %s"}
      [] step = "validate_input" ->
            {RandomArgsError, NoInputError, "Unknown UR type.", "Invalid UR."}
      [] step = "validate_count_for_input_format" ->
            {CountHexError, CountBC32Error}
      [] step = "validate_output_format" -> {"Unknown output format: %s"}
      [] step = "validate_output_for_input" ->
            {"Input format %s cannot be used with output format %s"}
      [] step = "validate_ints_specific" ->
            {IntsRangeError, "stoi",
             "Option --low can only be used with the \"ints\" output format.",
             "Option --high can only be used with the \"ints\" output format."}
      [] step = "validate_bip39_specific" ->
            {"For BIP39 COUNT must be in [12-32] and even."}
      [] step = "validate_slip39_specific" ->
            GroupErrors \cup
            {GroupThresholdError, "stoi",
             "Option --group can only be used with the \"slip39\" output format.",
             "Option --group-threshold can only be used with the \"slip39\" output format.",
             "For BIP39 COUNT must be in [16-32] and even.",
             "There must be no more than %d groups."}
      [] step = "validate_ur" -> {UrExclusiveError, UrOutputError, "stoi"}

\* the order of the steps as C2 gives it
StatedOrder ==
    <<"validate_count", "validate_deterministic", "validate_input_format",
      "validate_input", "validate_count_for_input_format",
      "validate_output_format", "validate_output_for_input",
      "validate_ints_specific", "validate_bip39_specific",
      "validate_slip39_specific", "validate_ur">>

\* C2: the steps run in the stated order and the first failure ends the run:
\* the diagnostic is that of the last step that ran, every step before it
\* passed, nothing runs after it (standard input is not read when the count
\* is invalid), and the pipeline completes only without a diagnostic.
C2_OrderAndFailFast ==
    /\ Len(ran) <= Len(StatedOrder)
    /\ \A k \in 1..Len(ran) : ran[k] = StatedOrder[k]
    /\ pc \notin {"exit", "done"} =>
          /\ err = NoError
          /\ pc = StatedOrder[Len(ran) + 1]
    /\ Exited =>
          /\ ran # <<>>
          /\ err.msg \in StepErrors(ran[Len(ran)])
          /\ ~ENABLED Next
    /\ pc = "done" => err = NoError /\ ran = StatedOrder
    /\ (Exited /\ raw.count \in {<<"0">>, <<"x">>}) =>
          /\ err.msg \in {CountError, "stoi"}
          /\ ran = <<"validate_count">>
          /\ cin_reads = 0
          /\ input = <<>>
    /\ (Exited /\ raw.count \notin {<<"0">>, <<"x">>} /\ raw.input_format = "bogus") =>
          err.msg = "Unknown input format: %s"
    /\ (Exited /\ raw.count = <<>> /\ raw.input_format = "hex"
            /\ raw.args # <<>> /\ raw.output_format = "bogus") =>
          err.msg = "Unknown output format: %s"
    /\ (Exited /\ raw.count # <<>> /\ raw.input_format = "hex"
            /\ raw.args = <<>> /\ cin_reads = 1 /\ input = <<>>) =>
          err.msg = NoInputError

\* --count 0 --in bogus --out bogus --low 300: the count is what is reported
C2_Witness ==
    /\ Exited
    /\ raw.count = <<"0">>
    /\ raw.input_format = "bogus"
    /\ raw.output_format = "bogus"
    /\ raw.ints_low # <<>>
    /\ err.msg = CountError
    /\ ran = <<"validate_count">>

====
